---- MODULE Spec2Model ----
(***************************************************************************)
(* Model of the SSA construction layer of ssa-interp (package ssa2):       *)
(*   promote.go  method-set registry and wrapper synthesis                 *)
(*   emit.go     helpers for emitting SSA instructions                     *)
(* Types are tuples of strings, SSA values and instructions are records,   *)
(* a Function is a record holding its blocks.  A Function instance is      *)
(* identified by its key and the serial number of its synthesis.           *)
(***************************************************************************)
EXTENDS Integers, Sequences, FiniteSets, TLC

VARIABLES
  methodSets,           \* prog.methodSets: type -> (method id -> Function)
  ifaceMethodWrappers,  \* prog.ifaceMethodWrappers: method object -> Function
  boundMethodWrappers,  \* prog.boundMethodWrappers: method object -> Function
  concreteMethods,      \* prog.concreteMethods: the method objects that have a Function
  methodsMu,            \* prog.methodsMu: holder of the lock, or NoProc
  created,              \* number of Functions synthesized so far, per key
  callers,              \* the goroutines that issue requests
  requests,             \* the requests they may issue
  budget,               \* the number of requests each of them issues
  pc, req, ret, calls,  \* per goroutine: position, request, result, calls made
  log,                  \* the completed requests with their results, in order
  fn,                   \* the Function under construction by the emitter
  emitted,              \* the last emitter operation: its inputs and result
  input                 \* the arguments the resolver or the emitters are applied to

regVars == <<methodSets, ifaceMethodWrappers, boundMethodWrappers, concreteMethods,
             methodsMu, created, callers, requests, budget, pc, req, ret, calls, log>>
emitVars == <<fn, emitted, input>>
vars == <<regVars, emitVars>>

----------------------------------------------------------------------------
(* Bounds *)

\* deepest embedding chain of the struct types handed to the resolver
MaxDepth == 3
\* number of concurrent goroutines
NProcs == 2
\* requests one goroutine issues in the sequential specification
MaxCalls == 3
\* largest number of results of a signature
MaxResults == 3
\* emitter operations applied to one Function
MaxOps == 2
\* blocks the builder creates in one Function
MaxBlocks == 2

----------------------------------------------------------------------------
(* Types (go/types).  A type is a tuple of strings:                        *)
(*   <<"C">>                 named struct type C (no embedded field)       *)
(*   <<"J">>, <<"I">>        named interface types; I embeds J             *)
(*   <<"S", f1, .., fk, b>>  named struct whose embedded field is          *)
(*                           <<"S", f2, .., fk, b>> (or b when k = 1),     *)
(*                           embedded by value (f1 = "v") or by pointer    *)
(*                           (f1 = "p")                                    *)
(*   <<"*">> \o t            pointer to t                                  *)
(*   <<"[]">> \o t           slice of t                                    *)
(*   <<"bool">>, <<"int">>.. basic types                                   *)

NilT == <<>>
tBool == <<"bool">>
tInt == <<"int">>

Pointer(t) == <<"*">> \o t

Slice(t) == <<"[]">> \o t

isPointer(t) == Len(t) > 0 /\ t[1] = "*"

deref(t) == IF isPointer(t) THEN Tail(t) ELSE t

tUntypedBool == <<"untyped bool">>
tUntypedInt == <<"untyped int">>
tUntypedNil == <<"untyped nil">>
tUint64 == <<"uint64">>
tMyBool == <<"MyBool">>
tMyInt == <<"MyInt">>
tEmpty == <<"interface">>
tChanInt == <<"chan", "int">>
tRecvChan == <<"chan", "<-", "int">>
tMyChan == <<"MyChan">>

\* Type.Underlying(): J and I are named interfaces with the one method im,
\* C and the S types named structs, MyBool, MyInt and MyChan named types
Underlying(t) ==
  CASE t \in {<<"J">>, <<"I">>} -> <<"interface", "im">>
    [] t = tMyBool -> tBool
    [] t = tMyInt -> tInt
    [] t = tMyChan -> tChanInt
    [] Len(t) > 0 /\ t[1] \in {"S", "C"} -> <<"struct">> \o t
    [] OTHER -> t

\* the class of an underlying type: its Go type in go/types
TypeClass(ut) ==
  CASE ut = <<>> -> "Nil"
    [] ut[1] = "interface" -> "Interface"
    [] ut[1] = "*" -> "Pointer"
    [] ut[1] = "chan" -> "Chan"
    [] ut[1] = "func" -> "Signature"
    [] ut[1] = "struct" -> "Struct"
    [] ut[1] = "[]" -> "Slice"
    [] OTHER -> "Basic"

\* types.IsIdentical
IsIdentical(a, b) == a = b

\* the type assertion of typ.Underlying() to an Interface succeeds
IsInterface(t) == TypeClass(Underlying(t)) = "Interface"

\* Basic.Info() flags
IsBoolean(ut) == ut \in {tBool, tUntypedBool}
IsUntyped(ut) == ut \in {tUntypedBool, tUntypedInt, tUntypedNil}
IsUnsigned(ut) == ut = tUint64

\* DefaultType: the type an untyped literal takes
DefaultType(ut) ==
  CASE ut = tUntypedBool -> tBool
    [] ut = tUntypedInt -> tInt
    [] OTHER -> ut

\* levels of embedding of struct type t
Levels(t) == IF Len(t) > 0 /\ t[1] = "S" THEN Len(t) - 2 ELSE 0

\* the base type at the end of t's embedding chain
BaseOf(t) == IF Levels(t) > 0 THEN <<t[Len(t)]>> ELSE t

\* the type embedded in struct type t, without the field's own pointer
Inner(t) == IF Levels(t) = 1 THEN <<t[3]>> ELSE <<"S">> \o SubSeq(t, 3, Len(t))

\* index of the embedded field of struct type t
EmbIndex(t) == Levels(t) - 1

\* the type of the embedded field: Struct.Field(index).Type()
FieldType(t) == IF t[2] = "p" THEN Pointer(Inner(t)) ELSE Inner(t)

\* the type of field index of struct type t; fields other than the embedded
\* one are plain int fields
StructField(t, index) ==
  IF Levels(t) > 0 /\ index = EmbIndex(t) THEN FieldType(t) ELSE tInt

RECURSIVE FlagSeqs(_)
FlagSeqs(n) ==
  IF n = 0 THEN {<<>>}
  ELSE LET s == FlagSeqs(n - 1)
       IN s \cup {<<f>> \o q : f \in {"v", "p"}, q \in {x \in s : Len(x) = n - 1}}

\* struct types with embedding chains of depth <= d; an interface is only
\* ever embedded by value
StructTypes(d) ==
  {<<"C">>} \cup
  {<<"S">> \o q \o <<"C">> : q \in FlagSeqs(d) \ {<<>>}} \cup
  {<<"S">> \o q \o <<"J">> : q \in {x \in FlagSeqs(d) \ {<<>>} : x[Len(x)] = "v"}}

----------------------------------------------------------------------------
(* Method objects (types.Func) of the program under analysis:              *)
(*   func (C) vm(int) int;  func (ptr-to-C) pm(int, bool) (int, bool)       *)
(*   type J interface { im(...int) };  type I interface { J }              *)

Methods == {"vm", "pm", "im"}

\* declared receiver type of method obj
recvType(obj) ==
  CASE obj = "vm" -> <<"C">>
    [] obj = "pm" -> Pointer(<<"C">>)
    [] obj = "im" -> <<"J">>

\* declared parameters, results and variadic flag of method obj
SigParams(obj) ==
  CASE obj = "vm" -> <<tInt>>
    [] obj = "pm" -> <<tInt, tBool>>
    [] obj = "im" -> <<tInt>>

SigResults(obj) ==
  CASE obj = "vm" -> <<tInt>>
    [] obj = "pm" -> <<tInt, tBool>>
    [] obj = "im" -> <<>>

SigVariadic(obj) == obj = "im"

\* position of obj among the methods of its declaring type
MethodIndex(obj) == IF obj = "pm" THEN 1 ELSE 0

\* the methods declared on base type b
DeclaredOn(b) == IF b = <<"C">> THEN {"vm", "pm"} ELSE IF IsInterface(b) THEN {"im"} ELSE {}

\* some embedding on the way from t to its base is through a pointer
ThroughPointer(t) == isPointer(t) \/ \E i \in 2..(Len(t) - 1) : t[1] = "S" /\ t[i] = "p"

\* typ.MethodSet() of go/types, by method id.  go/types also reports the
\* methods of an interface for a pointer to that interface.
TypMethodSet(typ) ==
  LET b == BaseOf(deref(typ))
  IN IF b = <<"C">>
     THEN {m \in DeclaredOn(b) : isPointer(recvType(m)) => ThroughPointer(typ)}
     ELSE DeclaredOn(b)

\* methodSet of promote.go: a pointer to an interface has no methods
methodSet(typ) ==
  IF IsInterface(deref(typ)) /\ isPointer(typ) THEN {} ELSE TypMethodSet(typ)

\* embedding-index path of the selection of obj on receiver type recv
RECURSIVE EmbPath(_)
EmbPath(t) == IF Levels(t) = 0 THEN <<>> ELSE <<EmbIndex(t)>> \o EmbPath(Inner(t))

\* a types.Selection: receiver type, method object, index path
Selection(recv, obj) ==
  [recv |-> recv, obj |-> obj, index |-> EmbPath(deref(recv)) \o <<MethodIndex(obj)>>]

\* receiver types with chains of depth <= d
RecvTypes(d) ==
  LET s == StructTypes(d) IN s \cup {Pointer(t) : t \in s} \cup {<<"J">>, <<"I">>}

\* the method selections the type checker can produce on those types: the
\* methods of the method set, and the pointer methods of an addressable value
Selections(d) ==
  UNION {{Selection(t, m) : m \in DeclaredOn(BaseOf(deref(t)))} : t \in RecvTypes(d)}

----------------------------------------------------------------------------
(* SSA values, instructions, blocks and Functions.                         *)
(* A value is a record with its kind k and static type t; the value of an  *)
(* instruction names the block b and the position i of the instruction.    *)

Nil == [k |-> "nil"]

\* a Parameter of a Function
Param(name, t, i) == [k |-> "Param", name |-> name, i |-> i, t |-> t]

\* a Capture (free variable) of a Function
Capture(name, t) == [k |-> "Capture", name |-> name, t |-> t]

\* a Const: a literal Value of type t; id tells apart two Const objects
NewConst(value, t, id) == [k |-> "Const", Value |-> value, t |-> t, id |-> id]

\* the shared constant true
vTrue == NewConst("true", tBool, 0)

\* nilConst: a nil constant of type typ
nilConst(typ) == NewConst("nil", typ, 1)

\* a BasicBlock
NewBasicBlock(comment) == [Comment |-> comment, Instrs |-> <<>>, Succs |-> <<>>, Preds |-> <<>>]

\* a Function header as the wrapper constructors fill it; Synthetic is the
\* description, serial tells apart two Functions of the same description
NewFunction(name, synthetic, sig, serial) ==
  [name |-> name, Synthetic |-> synthetic, Signature |-> sig, serial |-> serial,
   Params |-> <<>>, FreeVars |-> <<>>, Locals |-> <<>>, namedResults |-> <<>>,
   Blocks |-> <<>>, currentBlock |-> 0, Recover |-> 0, built |-> FALSE, fault |-> FALSE,
   needMethods |-> {}]

NewSignature(recv, params, results, variadic) ==
  [recv |-> recv, params |-> params, results |-> results, variadic |-> variadic]

\* the concrete Function of a declared method: it exists before any wrapper
ConcreteFunction(obj) ==
  [NewFunction(obj, [kind |-> "", obj |-> obj, typ |-> NilT],
               NewSignature(recvType(obj), SigParams(obj), SigResults(obj), SigVariadic(obj)), 0)
     EXCEPT !.built = TRUE]

\* Function.startBody: the entry block becomes the current block
startBody(f) == [f EXCEPT !.Blocks = <<NewBasicBlock("entry")>>, !.currentBlock = 1]

\* the value that the next instruction emitted to f defines
NextValue(f, t) ==
  [k |-> "Instr", b |-> f.currentBlock, i |-> Len(f.Blocks[f.currentBlock].Instrs) + 1, t |-> t]

\* Function.emit: append instr to the current block; with no current block
\* the append dereferences nil
emit(f, instr) ==
  IF f.currentBlock = 0 THEN [f EXCEPT !.fault = TRUE]
  ELSE [f EXCEPT !.Blocks[f.currentBlock].Instrs = Append(@, instr)]

\* Function.addParam
addParam(f, name, t) == [f EXCEPT !.Params = Append(@, Param(name, t, Len(f.Params) + 1))]

\* Function.addSpilledParam, after the parameter is added: an Alloc for its
\* spill and the Store of the parameter into it
SpillParam(f, name, t) ==
  emit(emit([f EXCEPT !.Locals = Append(@, NextValue(f, Pointer(t)))],
            [op |-> "Alloc", Heap |-> FALSE, Comment |-> name, t |-> Pointer(t)]),
       [op |-> "Store", Addr |-> NextValue(f, Pointer(t)), Val |-> f.Params[Len(f.Params)]])

\* Function.addSpilledParam
addSpilledParam(f, name, t) == SpillParam(addParam(f, name, t), name, t)

\* Function.finishBody: the Function is complete and no block is open
finishBody(f) == [f EXCEPT !.built = TRUE, !.currentBlock = 0]

\* createParams: one parameter per declared formal; the last one of a
\* variadic signature becomes a slice
RECURSIVE AddFormals(_, _, _)
AddFormals(f, ts, i) ==
  IF i > Len(ts) THEN f ELSE AddFormals(addParam(f, "p", ts[i]), ts, i + 1)

VariadicLast(g) ==
  IF g.Signature.variadic THEN [g EXCEPT !.Params[Len(g.Params)].t = Slice(@)] ELSE g

createParams(f) == VariadicLast(AddFormals(f, f.Signature.params, 1))

\* emitLoad: a load of address addr; its type is the pointee type
emitLoad(f, addr) ==
  [f |-> emit(f, [op |-> "UnOp", Op |-> "MUL", X |-> addr, t |-> deref(addr.t)]),
   v |-> NextValue(f, deref(addr.t))]

\* emitExtract: component index of tuple
emitExtract(f, tuple, index) ==
  [f |-> emit(f, [op |-> "Extract", Tuple |-> tuple, Index |-> index,
                  t |-> tuple.t.tuple[index + 1]]),
   v |-> NextValue(f, tuple.t.tuple[index + 1])]

\* the loop of emitTailCall over the nr results, from index i
RECURSIVE TailExtracts(_, _, _, _, _)
TailExtractsNext(e, tuple, i, nr, results) ==
  TailExtracts(e.f, tuple, i + 1, nr, Append(results, e.v))

TailExtracts(f, tuple, i, nr, results) ==
  IF i >= nr THEN [f |-> f, results |-> results]
  ELSE TailExtractsNext(emitExtract(f, tuple, i), tuple, i, nr, results)

\* call.typ of emitTailCall: the result type, or the tuple of result types
TailCallType(f) ==
  IF Len(f.Signature.results) = 1 THEN f.Signature.results[1]
  ELSE [tuple |-> f.Signature.results]

\* variant: the call's value is returned whatever the number of results
TailResultsDirect(f, tuple, nr) ==
  IF nr = 0 THEN [f |-> f, results |-> <<>>] ELSE [f |-> f, results |-> <<tuple>>]

\* the switch of emitTailCall on the number of results nr
TailResults(f, tuple, nr) ==
  CASE nr = 0 -> [f |-> f, results |-> <<>>]
    [] nr = 1 -> [f |-> f, results |-> <<tuple>>]
    [] OTHER -> TailExtracts(f, tuple, 0, nr, <<>>)

\* the end of emitTailCall: the Return is emitted and no block stays open
TailReturn(r) ==
  [emit(r.f, [op |-> "Return", Results |-> r.results]) EXCEPT !.currentBlock = 0]

\* emitTailCall: the call, then a Return of its results
emitTailCall(f, call) ==
  TailReturn(TailResults(emit(f, [call EXCEPT !.t = TailCallType(f)]),
                         NextValue(f, TailCallType(f)), Len(f.Signature.results)))

\* the FieldAddr of one implicit selection on pointer v
SelectFieldAddr(f, v, index, fld) ==
  [f |-> emit(f, [op |-> "FieldAddr", X |-> v, Field |-> index, t |-> Pointer(fld)]),
   v |-> NextValue(f, Pointer(fld))]

\* the Field of one implicit selection on struct value v
SelectField(f, v, index, fld) ==
  [f |-> emit(f, [op |-> "Field", X |-> v, Field |-> index, t |-> fld]),
   v |-> NextValue(f, fld)]

\* variant: the field's value is never loaded
LoadNever(fld, r) == r

\* "Load the field's value iff indirectly embedded"
LoadIfPointer(fld, r) == IF isPointer(fld) THEN emitLoad(r.f, r.v) ELSE r

\* one step of emitImplicitSelections
SelectStep(f, v, index, fld) ==
  IF isPointer(v.t) THEN LoadIfPointer(fld, SelectFieldAddr(f, v, index, fld))
  ELSE SelectField(f, v, index, fld)

\* emitImplicitSelections: one step per index; a FieldAddr (and a Load when
\* the field is a pointer) on a pointer, a Field on a struct value
RECURSIVE emitImplicitSelections(_, _, _)
SelectRest(r, indices) == emitImplicitSelections(r.f, r.v, indices)

emitImplicitSelections(f, v, indices) ==
  IF indices = <<>> THEN [f |-> f, v |-> v]
  ELSE SelectRest(SelectStep(f, v, Head(indices), StructField(deref(v.t), Head(indices))),
                  Tail(indices))

\* variant: only identical underlying types are value-preserving
isValuePreservingIdentical(ut_src, ut_dst) == IsIdentical(ut_dst, ut_src)

\* isValuePreserving: a conversion between these underlying types only
\* changes the type
isValuePreserving(ut_src, ut_dst) ==
  \/ IsIdentical(ut_dst, ut_src)
  \/ TypeClass(ut_dst) = "Chan" /\ TypeClass(ut_src) = "Chan"
  \/ TypeClass(ut_dst) = "Pointer" /\ TypeClass(ut_src) = "Pointer"
  \/ TypeClass(ut_dst) = "Signature" /\ TypeClass(ut_src) = "Signature"

\* the emission of a conversion instruction op of val to typ
EmitConversion(f, op, val, typ) ==
  [f |-> emit(f, [op |-> op, X |-> val, t |-> typ]), v |-> NextValue(f, typ)]

\* emitConv to an interface type of a value that is no interface and no
\* untyped nil: the package needs the methods of its type
EmitMakeInterface(r, typ) ==
  EmitConversion([r.f EXCEPT !.needMethods = @ \cup {r.v.t}], "MakeInterface", r.v, typ)

\* emitConv: val converted to exactly type typ
RECURSIVE emitConv(_, _, _)
emitConv(f, val, typ) ==
  IF IsIdentical(val.t, typ) THEN [f |-> f, v |-> val]
  ELSE IF isValuePreserving(Underlying(val.t), Underlying(typ))
  THEN EmitConversion(f, "ChangeType", val, typ)
  ELSE IF TypeClass(Underlying(typ)) = "Interface"
  THEN IF TypeClass(Underlying(val.t)) = "Interface"
       THEN EmitConversion(f, "ChangeInterface", val, typ)
       ELSE IF Underlying(val.t) = tUntypedNil THEN [f |-> f, v |-> nilConst(typ)]
       ELSE IF TypeClass(Underlying(val.t)) = "Basic" /\ IsUntyped(Underlying(val.t))
       THEN EmitMakeInterface(emitConv(f, val, DefaultType(Underlying(val.t))), typ)
       ELSE EmitMakeInterface([f |-> f, v |-> val], typ)
  ELSE IF val.k = "Const" THEN [f |-> f, v |-> NewConst(val.Value, typ, val.id + 2)]
  ELSE EmitConversion(f, "Convert", val, typ)

\* emitCompare, the conversions: the operands as the comparison takes them
CompareX(f, x, y) ==
  IF IsIdentical(Underlying(x.t), Underlying(y.t)) THEN [f |-> f, v |-> x]
  ELSE IF TypeClass(Underlying(x.t)) = "Interface" THEN [f |-> f, v |-> x]
  ELSE IF TypeClass(Underlying(y.t)) = "Interface" THEN emitConv(f, x, y.t)
  ELSE IF x.k = "Const" THEN emitConv(f, x, y.t)
  ELSE [f |-> f, v |-> x]

\* variant: the right operand is converted to an interface type only when
\* it is itself no interface
CompareYUnlessInterface(f, x, y) ==
  IF IsIdentical(Underlying(x.t), Underlying(y.t)) THEN [f |-> f, v |-> y]
  ELSE IF TypeClass(Underlying(x.t)) = "Interface"
  THEN IF TypeClass(Underlying(y.t)) = "Interface" THEN [f |-> f, v |-> y]
       ELSE emitConv(f, y, x.t)
  ELSE IF TypeClass(Underlying(y.t)) = "Interface" THEN [f |-> f, v |-> y]
  ELSE IF x.k = "Const" THEN [f |-> f, v |-> y]
  ELSE IF y.k = "Const" THEN emitConv(f, y, x.t)
  ELSE [f |-> f, v |-> y]

CompareY(f, x, y) ==
  IF IsIdentical(Underlying(x.t), Underlying(y.t)) THEN [f |-> f, v |-> y]
  ELSE IF TypeClass(Underlying(x.t)) = "Interface" THEN emitConv(f, y, x.t)
  ELSE IF TypeClass(Underlying(y.t)) = "Interface" THEN [f |-> f, v |-> y]
  ELSE IF x.k = "Const" THEN [f |-> f, v |-> y]
  ELSE IF y.k = "Const" THEN emitConv(f, y, x.t)
  ELSE [f |-> f, v |-> y]

\* emitCompare, the BinOp of type bool on the converted operands
CompareBinOp(f, op, x, y) ==
  [f |-> emit(f, [op |-> "BinOp", Op |-> op, X |-> x, Y |-> y, t |-> tBool]),
   v |-> NextValue(f, tBool)]

CompareConverted(rx, op, x, y) ==
  CompareBinOp(CompareY(rx.f, x, y).f, op, rx.v, CompareY(rx.f, x, y).v)

\* variant: the constant true on either side
isTrueEqlEither(op, x, y) ==
  /\ op = "EQL" /\ (x = vTrue \/ y = vTrue)
  /\ TypeClass(Underlying(y.t)) = "Basic" /\ IsBoolean(Underlying(y.t))

\* the special case of emitCompare for a tagless switch
isTrueEql(op, x, y) ==
  /\ x = vTrue /\ op = "EQL"
  /\ TypeClass(Underlying(y.t)) = "Basic" /\ IsBoolean(Underlying(y.t))

\* emitCompare: the boolean result of "x op y"
emitCompare(f, op, x, y) ==
  IF isTrueEql(op, x, y) THEN [f |-> f, v |-> y]
  ELSE CompareConverted(CompareX(f, x, y), op, x, y)

\* addEdge: an edge of the control-flow graph
addEdge(f, from, to) ==
  [f EXCEPT !.Blocks[from].Succs = Append(@, to), !.Blocks[to].Preds = Append(@, from)]

\* variant: no block stays current only when the target is another block
CloseUnlessSelf(f, g, target) ==
  IF target = f.currentBlock THEN g ELSE [g EXCEPT !.currentBlock = 0]

\* the end of emitJump and emitIf: f.currentBlock = nil
Close(f, g, target) == [g EXCEPT !.currentBlock = 0]

\* emitJump: a Jump, the edge to target, and no block is current
emitJump(f, target) ==
  Close(f, addEdge(emit(f, [op |-> "Jump"]), f.currentBlock, target), target)

\* emitIf: an If on cond, the edges to tblock and to fblock in this order,
\* and no block is current
emitIf(f, cond, tblock, fblock) ==
  Close(f, addEdge(addEdge(emit(f, [op |-> "If", Cond |-> cond]), f.currentBlock, tblock),
                   f.currentBlock, fblock), tblock)

\* Function.newBasicBlock: a new block at the end of f.Blocks
newBasicBlock(f, comment) == [f EXCEPT !.Blocks = Append(@, NewBasicBlock(comment))]

\* Function.addLocal: an Alloc in the current block, recorded in f.Locals
addLocal(f, typ) ==
  [f |-> emit([f EXCEPT !.Locals = Append(@, NextValue(f, Pointer(typ)))],
              [op |-> "Alloc", Heap |-> FALSE, Comment |-> "", t |-> Pointer(typ)]),
   v |-> NextValue(f, Pointer(typ))]

\* zeroConst: the constant zero value of type typ
zeroConst(typ) == NewConst("0", typ, 7)

\* createRecoverBlock, named results: "Reload NRPs to form value tuple"
RECURSIVE ReloadResults(_, _, _)
ReloadNext(e, i, results) == ReloadResults(e.f, i + 1, Append(results, e.v))

ReloadResults(f, i, results) ==
  IF i > Len(f.namedResults) THEN [f |-> f, results |-> results]
  ELSE ReloadNext(emitLoad(f, f.namedResults[i]), i, results)

\* the zero value of one result type: loaded from a new local for a struct
\* or an array, a constant otherwise
LoadLocal(r) == emitLoad(r.f, r.v)

ZeroValue(f, typ) ==
  IF TypeClass(Underlying(typ)) \in {"Struct", "Array"} THEN LoadLocal(addLocal(f, typ))
  ELSE [f |-> f, v |-> zeroConst(typ)]

\* createRecoverBlock, unnamed results: "Return zero value of each result type"
RECURSIVE ZeroResults(_, _, _)
ZeroNext(e, i, results) == ZeroResults(e.f, i + 1, Append(results, e.v))

ZeroResults(f, i, results) ==
  IF i > Len(f.Signature.results) THEN [f |-> f, results |-> results]
  ELSE ZeroNext(ZeroValue(f, f.Signature.results[i]), i, results)

\* variant: the zero values are returned even when the results are named
RecoverResultsZero(f) == ZeroResults(f, 1, <<>>)

\* the results the recover block returns
RecoverResults(f) ==
  IF f.namedResults # <<>> THEN ReloadResults(f, 1, <<>>) ELSE ZeroResults(f, 1, <<>>)

\* the end of createRecoverBlock: the Return, and the saved block is current
RecoverReturn(r, saved) ==
  [emit(r.f, [op |-> "Return", Results |-> r.results]) EXCEPT !.currentBlock = saved]

\* the new block "recover" is f.Recover and the current block
RecoverBlock(f) ==
  [newBasicBlock(f, "recover") EXCEPT !.Recover = Len(f.Blocks) + 1,
                                      !.currentBlock = Len(f.Blocks) + 1]

\* createRecoverBlock: the block that returns after a recovered panic
createRecoverBlock(f) ==
  IF f.Recover # 0 THEN f
  ELSE RecoverReturn(RecoverResults(RecoverBlock(f)), f.currentBlock)

----------------------------------------------------------------------------
(* Wrapper synthesis (promote.go).  prog is the record of the Program's    *)
(* fields an operation reads; an operation returns the Function, the       *)
(* updated fields, and whether it panicked.                                *)

\* identity of a synthesized Function apart from its serial
Key(f) == [Synthetic |-> f.Synthetic, recv |-> f.Signature.recv]

\* Functions synthesized so far with the key of f
Count(cr, f) == Cardinality({x \in cr : x.key = Key(f)})

\* f as a newly synthesized Function: it gets the next serial of its key
Fresh(cr, f) == [f EXCEPT !.serial = Count(cr, f) + 1]

Register(cr, f) == cr \cup {[key |-> Key(f), serial |-> f.serial]}

\* Call.Method of a call that is not abstract ("invoke" mode)
NoMethod == ""

\* a Call instruction before emitTailCall types it
NewCall(value, method, args) ==
  [op |-> "Call", Value |-> value, Method |-> method, Args |-> args, t |-> NilT]

\* Program.concreteMethod: the Function of obj; absent, it panics
concreteMethod(prog, obj) ==
  IF obj \in prog.concreteMethods
  THEN [fn |-> ConcreteFunction(obj), panic |-> FALSE]
  ELSE [fn |-> Nil, panic |-> TRUE]

\* a result of a synthesis that panicked
PanicResult(prog) ==
  [fn |-> Nil, panic |-> TRUE, ifw |-> prog.ifaceMethodWrappers, created |-> prog.created]

\* a result of a synthesis that built f
BuiltResult(prog, f) ==
  [fn |-> f, panic |-> FALSE, ifw |-> prog.ifaceMethodWrappers,
   created |-> Register(prog.created, f)]

\* makeWrapper, the header: the Function with its spilled receiver and its
\* parameters
WrapperHeader(prog, typ, mfunc) ==
  createParams(addSpilledParam(startBody(Fresh(prog.created,
    NewFunction(mfunc, [kind |-> "wrapper", obj |-> mfunc, typ |-> NilT],
                NewSignature(typ, SigParams(mfunc), SigResults(mfunc), SigVariadic(mfunc)),
                0))), "recv", typ))

\* makeWrapper, the base: a pointer receiver is loaded from its spill, for a
\* value receiver the spill itself is the address
WrapperBase(f, typ) ==
  IF isPointer(typ) THEN emitLoad(f, f.Locals[1]) ELSE [f |-> f, v |-> f.Locals[1]]

\* makeWrapper, the implicit selections along all but the last index
WrapperWalk(r, indices) ==
  emitImplicitSelections(r.f, r.v, SubSeq(indices, 1, Len(indices) - 1))

\* variant: the call takes the address the walk ends with
WrapperRecvAddress(r, mfunc) == r

\* makeWrapper, the receiver of the call: a concrete method with a pointer
\* receiver takes the address, every other method the loaded value
WrapperRecv(r, mfunc) ==
  IF ~IsInterface(recvType(mfunc)) /\ isPointer(recvType(mfunc)) THEN r
  ELSE emitLoad(r.f, r.v)

\* makeWrapper, the call: direct for a concrete method, abstract otherwise;
\* the formals follow the receiver
WrapperCall(prog, r, mfunc) ==
  IF ~IsInterface(recvType(mfunc))
  THEN NewCall(concreteMethod(prog, mfunc).fn, NoMethod,
               <<r.v>> \o SubSeq(r.f.Params, 2, Len(r.f.Params)))
  ELSE NewCall(r.v, mfunc, SubSeq(r.f.Params, 2, Len(r.f.Params)))

WrapperFinish(prog, r, mfunc) ==
  BuiltResult(prog, finishBody(emitTailCall(r.f, WrapperCall(prog, r, mfunc))))

\* makeWrapper: receiver indirection, implicit field selections and a tail
\* call of the promoted method
makeWrapper(prog, typ, meth) ==
  IF ~IsInterface(recvType(meth.obj)) /\ concreteMethod(prog, meth.obj).panic
  THEN PanicResult(prog)
  ELSE WrapperFinish(prog,
         WrapperRecv(WrapperWalk(WrapperBase(WrapperHeader(prog, typ, meth.obj), typ),
                                 meth.index),
                     meth.obj),
         meth.obj)

\* interfaceMethodWrapper, the header: the Function with the receiver as
\* its first parameter
IfaceHeader(prog, typ, obj) ==
  createParams(addParam(startBody(Fresh(prog.created,
    NewFunction(obj, [kind |-> "interface method wrapper", obj |-> obj, typ |-> typ],
                NewSignature(recvType(obj), SigParams(obj), SigResults(obj), SigVariadic(obj)),
                0))), "recv", typ))

\* interfaceMethodWrapper, the body: one abstract call on the receiver
IfaceBody(f, obj) ==
  finishBody(emitTailCall(f, NewCall(f.Params[1], obj, SubSeq(f.Params, 2, Len(f.Params)))))

\* interfaceMethodWrapper, the store into prog.ifaceMethodWrappers
IfaceStore(prog, obj, f) ==
  [fn |-> f, panic |-> FALSE, ifw |-> [prog.ifaceMethodWrappers EXCEPT ![obj] = f],
   created |-> Register(prog.created, f)]

\* variant: a wrapper per receiver type, not memoized by method object
IfaceUnshared(prog, typ, obj) ==
  IfaceStore(prog, obj, IfaceBody(IfaceHeader(prog, typ, obj), obj))

\* interfaceMethodWrapper: the wrapper of abstract method obj, memoized by
\* method object
interfaceMethodWrapper(prog, typ, obj) ==
  IF prog.ifaceMethodWrappers[obj] # Nil
  THEN [fn |-> prog.ifaceMethodWrappers[obj], panic |-> FALSE,
        ifw |-> prog.ifaceMethodWrappers, created |-> prog.created]
  ELSE IfaceStore(prog, obj, IfaceBody(IfaceHeader(prog, typ, obj), obj))

\* the last rule of findMethod: the existing concrete Function
ConcreteResult(prog, cm) ==
  [fn |-> cm.fn, panic |-> cm.panic, ifw |-> prog.ifaceMethodWrappers,
   created |-> prog.created]

\* variant: the addressing modes differ in either direction
needsIndirectionEither(meth) == isPointer(recvType(meth.obj)) # isPointer(meth.recv)

\* needsIndirection of findMethod
needsIndirection(meth) == ~isPointer(recvType(meth.obj)) /\ isPointer(meth.recv)

\* needsPromotion of findMethod
needsPromotion(meth) == Len(meth.index) > 1

\* findMethod: the Function for selection meth, synthesizing wrappers as needed
findMethod(prog, meth) ==
  IF needsPromotion(meth) \/ needsIndirection(meth) THEN makeWrapper(prog, meth.recv, meth)
  ELSE IF IsInterface(meth.recv) THEN interfaceMethodWrapper(prog, meth.recv, meth.obj)
  ELSE ConcreteResult(prog, concreteMethod(prog, meth.obj))

\* boundMethodWrapper, the header: one free variable, the receiver, and the
\* formals as parameters
BoundHeader(prog, obj) ==
  createParams(startBody(
    [Fresh(prog.created,
           NewFunction("bound$" \o obj, [kind |-> "bound method wrapper", obj |-> obj,
                                         typ |-> NilT],
                       NewSignature(NilT, SigParams(obj), SigResults(obj), SigVariadic(obj)),
                       0))
       EXCEPT !.FreeVars = <<Capture("recv", recvType(obj))>>]))

\* variant: the receiver follows the formals
BoundCallFormalsFirst(prog, f, obj) ==
  IF ~IsInterface(recvType(obj))
  THEN NewCall(concreteMethod(prog, obj).fn, NoMethod, f.Params \o <<f.FreeVars[1]>>)
  ELSE NewCall(f.FreeVars[1], obj, f.Params)

\* boundMethodWrapper, the call: direct with the capture as first argument
\* for a concrete method, abstract on the capture otherwise
BoundCall(prog, f, obj) ==
  IF ~IsInterface(recvType(obj))
  THEN NewCall(concreteMethod(prog, obj).fn, NoMethod, <<f.FreeVars[1]>> \o f.Params)
  ELSE NewCall(f.FreeVars[1], obj, f.Params)

BoundBody(prog, f, obj) == finishBody(emitTailCall(f, BoundCall(prog, f, obj)))

\* the synthesis of boundMethodWrapper
NewBoundMethodWrapper(prog, obj) ==
  IF ~IsInterface(recvType(obj)) /\ concreteMethod(prog, obj).panic
  THEN PanicResult(prog)
  ELSE BuiltResult(prog, BoundBody(prog, BoundHeader(prog, obj), obj))

----------------------------------------------------------------------------
(* The method-set registry (promote.go): MethodSet, LookupMethod and       *)
(* boundMethodWrapper called by concurrent goroutines.                     *)

Procs == 1..NProcs
NoProc == 0

\* a nil MethodSet map
NilMap == [id \in Methods |-> Nil]

\* results of a request that does not return normally
Panicked == [k |-> "panic"]
Crashed == [k |-> "fatal error"]

tC == <<"C">>
tB == <<"S", "v", "C">>
tJ == <<"J">>
tI == <<"I">>

\* the types the registry is asked about
RegTypes == {tC, Pointer(tC), tB, tJ, tI, Pointer(tJ)}

MethodSetReq(typ) == [kind |-> "MethodSet", typ |-> typ]
LookupMethodReq(meth) == [kind |-> "LookupMethod", meth |-> meth]
BoundReq(obj) == [kind |-> "boundMethodWrapper", obj |-> obj]

RegSelections == {m \in Selections(1) : m.recv \in RegTypes}

RegRequests ==
  {MethodSetReq(t) : t \in RegTypes} \cup {LookupMethodReq(m) : m \in RegSelections}
    \cup {BoundReq(obj) : obj \in Methods}

\* the requests of the concurrent specification: the methods of ptr-to-C, of
\* which vm needs a wrapper, the shared interface method, and bound wrappers
ConcRequests ==
  {MethodSetReq(Pointer(tC)), LookupMethodReq(Selection(Pointer(tC), "vm")),
   LookupMethodReq(Selection(Pointer(tC), "pm")),
   LookupMethodReq(Selection(tI, "im")), LookupMethodReq(Selection(tJ, "im")),
   BoundReq("vm"), BoundReq("im")}

TypOf(r) == IF r.kind = "LookupMethod" THEN r.meth.recv ELSE r.typ

Prog ==
  [methodSets |-> methodSets, ifaceMethodWrappers |-> ifaceMethodWrappers,
   boundMethodWrappers |-> boundMethodWrappers, concreteMethods |-> concreteMethods,
   created |-> created]

\* len(mset)
MsetLen(m) == Cardinality({id \in Methods : m[id] # Nil})

\* the method ids in the order of types.MethodSet.At
MethodOrder == <<"im", "pm", "vm">>

\* tmset of populateMethodSet: the enumeration of typ's method set
tmset(typ) == LET S == methodSet(typ) IN SelectSeq(MethodOrder, LAMBDA x : x \in S)

\* variant: LookupMethod resolves its selection whether or not it has an entry
PendingAgain(r) ==
  LET m == methodSets[TypOf(r)]
      missing == {id \in Methods : m[id] = Nil}
  IN IF r.kind = "LookupMethod" THEN <<r.meth.obj>>
     ELSE SelectSeq(tmset(r.typ), LAMBDA x : x \in missing)

\* variant: LookupMethod completes the method set as MethodSet does
PendingComplete(r) ==
  LET m == methodSets[TypOf(r)]
      missing == {id \in Methods : m[id] = Nil}
  IN SelectSeq(tmset(TypOf(r)), LAMBDA x : x \in missing)

\* the selections populateMethodSet has still to resolve inside its
\* "if len(mset) < n": the requested one, or every missing one in order
Pending(r) ==
  LET m == methodSets[TypOf(r)]
      missing == {id \in Methods : m[id] = Nil}
  IN IF r.kind = "LookupMethod"
     THEN IF m[r.meth.obj] = Nil THEN <<r.meth.obj>> ELSE <<>>
     ELSE SelectSeq(tmset(r.typ), LAMBDA x : x \in missing)

Running == \A q \in callers : pc[q] # "crashed"

CanCall(p) == Running /\ p \in callers /\ pc[p] = "idle" /\ calls[p] < budget

\* request r of p is complete with result v
Finish(p, r, v) ==
  /\ ret' = [ret EXCEPT ![p] = v]
  /\ log' = Append(log, [p |-> p, req |-> r, ret |-> v])
  /\ pc' = [pc EXCEPT ![p] = "idle"]
  /\ calls' = [calls EXCEPT ![p] = @ + 1]

\* entry of populateMethodSet, up to the lock: an empty method set returns nil
Enter(p, r) ==
  /\ req' = [req EXCEPT ![p] = r]
  /\ IF Len(tmset(TypOf(r))) = 0
     THEN Finish(p, r, IF r.kind = "MethodSet" THEN NilMap ELSE Nil)
     ELSE /\ pc' = [pc EXCEPT ![p] = "lock"]
          /\ UNCHANGED <<ret, log, calls>>
  /\ UNCHANGED <<methodSets, ifaceMethodWrappers, boundMethodWrappers, concreteMethods,
                 methodsMu, created, callers, requests, budget, emitVars>>

\* Program.MethodSet(typ)
MethodSet(p) ==
  \E r \in requests : CanCall(p) /\ r.kind = "MethodSet" /\ Enter(p, r)

\* Program.LookupMethod(meth)
LookupMethod(p) ==
  \E r \in requests : CanCall(p) /\ r.kind = "LookupMethod" /\ Enter(p, r)

\* boundMethodWrapper(prog, obj), up to the lock
boundMethodWrapper(p) ==
  \E r \in requests :
    /\ CanCall(p) /\ r.kind = "boundMethodWrapper"
    /\ req' = [req EXCEPT ![p] = r]
    /\ pc' = [pc EXCEPT ![p] = "lock"]
    /\ UNCHANGED <<methodSets, ifaceMethodWrappers, boundMethodWrappers, concreteMethods,
                   methodsMu, created, callers, requests, budget, ret, calls, log, emitVars>>

\* prog.methodsMu.Lock(), and in populateMethodSet the fetch of mset and
\* the test len(mset) < n
Lock(p) ==
  /\ Running /\ p \in callers /\ pc[p] = "lock" /\ methodsMu = NoProc
  /\ methodsMu' = p
  /\ pc' = [pc EXCEPT ![p] =
       IF req[p].kind = "boundMethodWrapper" THEN "bound"
       ELSE IF MsetLen(methodSets[TypOf(req[p])]) < Len(tmset(TypOf(req[p])))
               /\ Pending(req[p]) # <<>>
            THEN "populate" ELSE "return"]
  /\ UNCHANGED <<methodSets, ifaceMethodWrappers, boundMethodWrappers, concreteMethods,
                 created, callers, requests, budget, req, ret, calls, log, emitVars>>

\* the selection goroutine q resolves next: meth of LookupMethod, or
\* tmset.At(i) in the loop of MethodSet
NextSelection(q) ==
  IF req[q].kind = "LookupMethod" THEN req[q].meth
  ELSE Selection(req[q].typ, Head(Pending(req[q])))

\* one "mset[id] = findMethod(prog, meth)" of populateMethodSet
Populate(p) ==
  /\ Running /\ p \in callers /\ pc[p] = "populate"
  /\ \E typ \in {TypOf(req[p])}, id \in {Head(Pending(req[p]))} :
     \E r \in {findMethod(Prog, NextSelection(p))} :
        IF r.panic
        THEN /\ pc' = [pc EXCEPT ![p] = "panic"]
             /\ UNCHANGED <<methodSets, ifaceMethodWrappers, created>>
        ELSE /\ methodSets' = [methodSets EXCEPT ![typ][id] = r.fn]
             /\ ifaceMethodWrappers' = r.ifw
             /\ created' = r.created
             /\ pc' = [pc EXCEPT ![p] =
                  IF Len(Pending(req[p])) > 1 THEN "populate" ELSE "return"]
  /\ UNCHANGED <<boundMethodWrappers, concreteMethods, methodsMu, callers, requests,
                 budget, req, ret, calls, log, emitVars>>

\* the body of boundMethodWrapper under the lock
Bound(p) ==
  /\ Running /\ p \in callers /\ pc[p] = "bound"
  /\ \E obj \in {req[p].obj} :
     \E r \in {IF boundMethodWrappers[obj] # Nil THEN PanicResult(Prog)
                ELSE NewBoundMethodWrapper(Prog, obj)} :
        IF boundMethodWrappers[obj] # Nil
        THEN /\ ret' = [ret EXCEPT ![p] = boundMethodWrappers[obj]]
             /\ pc' = [pc EXCEPT ![p] = "return"]
             /\ UNCHANGED <<boundMethodWrappers, created>>
        ELSE IF r.panic
        THEN /\ pc' = [pc EXCEPT ![p] = "panic"]
             /\ UNCHANGED <<boundMethodWrappers, created, ret>>
        ELSE /\ boundMethodWrappers' = [boundMethodWrappers EXCEPT ![obj] = r.fn]
             /\ created' = r.created
             /\ ret' = [ret EXCEPT ![p] = r.fn]
             /\ pc' = [pc EXCEPT ![p] = "return"]
  /\ UNCHANGED <<methodSets, ifaceMethodWrappers, concreteMethods, methodsMu, callers,
                 requests, budget, req, calls, log, emitVars>>

\* the deferred prog.methodsMu.Unlock() and the return: MethodSet returns
\* the map, boundMethodWrapper the Function, LookupMethod goes on to index
\* the map it got
Return(p) ==
  /\ Running /\ p \in callers /\ pc[p] = "return"
  /\ methodsMu' = NoProc
  /\ CASE req[p].kind = "MethodSet" -> Finish(p, req[p], methodSets[req[p].typ])
       [] req[p].kind = "boundMethodWrapper" -> Finish(p, req[p], ret[p])
       [] OTHER -> /\ pc' = [pc EXCEPT ![p] = "index"]
                   /\ UNCHANGED <<ret, log, calls>>
  /\ UNCHANGED <<methodSets, ifaceMethodWrappers, boundMethodWrappers, concreteMethods,
                 created, callers, requests, budget, req, emitVars>>

\* another goroutine is about to write the map of typ
Writing(p, typ) ==
  \E q \in callers \ {p} :
    pc[q] = "populate" /\ TypOf(req[q]) = typ /\ ~findMethod(Prog, NextSelection(q)).panic

\* the index "[meth.Obj().Id()]" of LookupMethod, after the lock is
\* released: read while another goroutine writes the same map, it is a data
\* race, which yields the entry, nil, or the runtime's fatal error
Index(p) ==
  /\ Running /\ p \in callers /\ pc[p] = "index"
  /\ \E typ \in {req[p].meth.recv} :
     \E v \in {methodSets[typ][req[p].meth.obj]} :
        \/ Finish(p, req[p], v)
        \/ Writing(p, typ) /\ Finish(p, req[p], Nil)
        \/ /\ Writing(p, typ)
           /\ pc' = [pc EXCEPT ![p] = "crashed"]
           /\ ret' = [ret EXCEPT ![p] = Crashed]
           /\ log' = Append(log, [p |-> p, req |-> req[p], ret |-> Crashed])
           /\ UNCHANGED calls
  /\ UNCHANGED <<methodSets, ifaceMethodWrappers, boundMethodWrappers, concreteMethods,
                 methodsMu, created, callers, requests, budget, req, emitVars>>

\* variant: the panic unwinds without an Unlock
PanicHoldingLock(p) ==
  /\ Running /\ p \in callers /\ pc[p] = "panic"
  /\ Finish(p, req[p], Panicked)
  /\ UNCHANGED <<methodSets, ifaceMethodWrappers, boundMethodWrappers, concreteMethods,
                 methodsMu, created, callers, requests, budget, req, emitVars>>

\* a panic of concreteMethod unwinds: the deferred Unlock runs and the
\* request ends without a result
Panic(p) ==
  /\ Running /\ p \in callers /\ pc[p] = "panic"
  /\ methodsMu' = NoProc
  /\ Finish(p, req[p], Panicked)
  /\ UNCHANGED <<methodSets, ifaceMethodWrappers, boundMethodWrappers, concreteMethods,
                 created, callers, requests, budget, req, emitVars>>

NoFunction == NewFunction("", [kind |-> "", obj |-> "", typ |-> NilT],
                          NewSignature(NilT, <<>>, <<>>, FALSE), 0)

\* the Program after NewProgram and package creation: empty caches; the
\* concrete method of pm may not have been created
InitProg ==
  /\ methodSets = [t \in RegTypes |-> NilMap]
  /\ ifaceMethodWrappers = [obj \in Methods |-> Nil]
  /\ boundMethodWrappers = [obj \in Methods |-> Nil]
  /\ concreteMethods \in {{"vm", "pm"}, {"vm"}}
  /\ methodsMu = NoProc
  /\ created = {}

InitCallers(cs, rs, b) ==
  /\ callers = cs /\ requests = rs /\ budget = b
  /\ pc = [p \in cs |-> "idle"]
  /\ req = [p \in cs |-> BoundReq("")]
  /\ ret = [p \in cs |-> Nil]
  /\ calls = [p \in cs |-> 0]
  /\ log = <<>>

NoEmit == [op |-> "none", n |-> 0]

InitEmitIdle == fn = NoFunction /\ emitted = NoEmit /\ input = Nil

\* NProcs goroutines, one request each
Init == InitProg /\ InitCallers(Procs, ConcRequests, 1) /\ InitEmitIdle

\* one goroutine issuing MaxCalls requests one after the other
InitSeq == InitProg /\ InitCallers({1}, RegRequests, MaxCalls) /\ InitEmitIdle

Step(p) ==
  \/ MethodSet(p)
  \/ LookupMethod(p)
  \/ boundMethodWrapper(p)
  \/ Lock(p)
  \/ Populate(p)
  \/ Bound(p)
  \/ Return(p)
  \/ Index(p)
  \/ Panic(p)

Next == \E p \in Procs : Step(p)

Spec == Init /\ [][Next]_vars

SpecSeq == InitSeq /\ [][Next]_vars

\* the requests of the fair specification: they contend for the methods of
\* ptr-to-C and for a bound wrapper
FairRequests ==
  {MethodSetReq(Pointer(tC)), LookupMethodReq(Selection(Pointer(tC), "vm")),
   LookupMethodReq(Selection(Pointer(tC), "pm")), BoundReq("vm")}

InitFair == InitProg /\ InitCallers(Procs, FairRequests, 1) /\ InitEmitIdle

\* the steps of a request that is under way, but for Populate
Work(p) == Lock(p) \/ Bound(p) \/ Return(p) \/ Index(p) \/ Panic(p)

\* Populate(p) is enabled: its guard, since findMethod always has an outcome
CanPopulate(p) == Running /\ p \in callers /\ pc[p] = "populate"

\* weak fairness of Populate(p), with its guard written out
FairPopulate(p) == []<>(~CanPopulate(p)) \/ []<><<Populate(p)>>_vars

\* the concurrent goroutines under a fair scheduler: a goroutine that can
\* take a step is scheduled, and Lock returns once the mutex is free
SpecFair ==
  InitFair /\ [][Next]_vars /\ \A p \in Procs : WF_vars(Work(p)) /\ FairPopulate(p)

----------------------------------------------------------------------------
(* The resolver on its own: findMethod applied to one selection of a       *)
(* Program with empty caches.                                              *)

InitResolve ==
  /\ InitProg /\ InitCallers({}, {}, 0)
  /\ fn = NoFunction /\ emitted = NoEmit
  /\ input \in {[meth |-> m] : m \in Selections(MaxDepth)}

\* findMethod(prog, meth) for a selection meth of the type checker
Resolve ==
  /\ emitted.op = "none"
  /\ \E r \in {findMethod(Prog, input.meth)} :
        /\ fn' = IF r.panic THEN NoFunction ELSE r.fn
        /\ emitted' = [op |-> "findMethod", meth |-> input.meth, panic |-> r.panic, n |-> 1]
        /\ ifaceMethodWrappers' = r.ifw
        /\ created' = r.created
  /\ UNCHANGED <<methodSets, boundMethodWrappers, concreteMethods, methodsMu, callers,
                 requests, budget, pc, req, ret, calls, log, input>>

NextResolve == Resolve

SpecResolve == InitResolve /\ [][NextResolve]_vars

----------------------------------------------------------------------------
(* The emitters on their own (emit.go): applied to a Function under        *)
(* construction whose entry block is open.                                 *)

\* the operands the builder hands to emitCompare: constants and parameters
cTrue == NewConst("true", tBool, 3)
cUntypedTrue == NewConst("true", tUntypedBool, 4)
cOne == NewConst("1", tUntypedInt, 5)
cNil == NewConst("nil", tUntypedNil, 6)

EmitParams ==
  {Param("b", tBool, 1), Param("mb", tMyBool, 2), Param("i", tInt, 3),
   Param("j", tJ, 4), Param("e", tEmpty, 5), Param("ch", tChanInt, 6),
   Param("mch", tMyChan, 7), Param("pc", Pointer(tC), 8),
   Param("rch", tRecvChan, 9)}

EmitValues == {vTrue, cTrue, cUntypedTrue, cOne, cNil} \cup EmitParams

\* v is assignable to type T (the language's rule, as far as these types go)
Assignable(v, T) ==
  \/ IsIdentical(v.t, T)
  \/ v.t = tUntypedBool /\ Underlying(T) = tBool
  \/ v.t = tUntypedInt /\ Underlying(T) \in {tInt, tUint64}
  \/ v.t = tUntypedNil /\ TypeClass(Underlying(T)) \in {"Pointer", "Chan", "Interface"}
  \/ T = tEmpty /\ v.t # tUntypedNil
  \/ IsInterface(T) /\ IsInterface(v.t)
  \/ Underlying(v.t) = Underlying(T) /\ TypeClass(Underlying(T)) = "Chan"
  \/ Underlying(v.t) = tChanInt /\ T = tRecvChan

\* the operand pairs of a well-typed comparison, and the tag vTrue of a
\* tagless switch against a boolean case expression
Comparable(x, y) ==
  \/ (Assignable(x, y.t) \/ Assignable(y, x.t)) /\ ~(x = cNil /\ y = cNil)
  \/ x = vTrue /\ Underlying(y.t) \in {tBool, tUntypedBool}

\* result types of a signature with nr results
ResultTypes(nr) == [i \in 1..nr |-> IF i % 2 = 1 THEN tInt ELSE tBool]

\* a Function whose body the builder has just started
EmitFunctionOf(results) ==
  startBody(NewFunction("f", [kind |-> "", obj |-> "", typ |-> NilT],
                        NewSignature(NilT, <<>>, results, FALSE), 0))

EmitFunction(nr) == EmitFunctionOf(ResultTypes(nr))

\* the calls handed to emitTailCall: a direct call of g, an abstract call
TailCalls ==
  {NewCall([k |-> "Function", name |-> "g", t |-> <<"func">>], NoMethod, <<>>),
   NewCall(Param("j", tJ, 4), "im", <<>>)}

\* the arguments of the emitters
EmitArgs ==
  {[Op |-> op, X |-> x, Y |-> y, call |-> call] :
     op \in {"EQL", "NEQ"}, x \in EmitValues, y \in EmitValues, call \in TailCalls}

InitEmit ==
  /\ InitProg /\ InitCallers({}, {}, 0)
  /\ fn \in {EmitFunction(nr) : nr \in 0..MaxResults}
  /\ emitted = NoEmit
  /\ input \in {a \in EmitArgs : Comparable(a.X, a.Y)}

CanEmit == fn.currentBlock # 0 /\ emitted.n < MaxOps

\* emitCompare(f, op, x, y, pos)
EmitCompare ==
  /\ CanEmit
  /\ \E r \in {emitCompare(fn, input.Op, input.X, input.Y)} :
       /\ fn' = r.f
       /\ emitted' = [op |-> "emitCompare", v |-> r.v, before |-> fn, n |-> emitted.n + 1]
  /\ UNCHANGED <<regVars, input>>

\* emitTailCall(f, call)
EmitTailCall ==
  /\ CanEmit
  /\ fn' = emitTailCall(fn, input.call)
  /\ emitted' = [op |-> "emitTailCall", before |-> fn, n |-> emitted.n + 1]
  /\ UNCHANGED <<regVars, input>>

NextEmit == EmitCompare \/ EmitTailCall

SpecEmit == InitEmit /\ [][NextEmit]_vars

----------------------------------------------------------------------------
(* emitConv on its own: a value converted to a type, and the result        *)
(* converted again.                                                        *)

\* the types the builder converts to
ConvTypes ==
  {tBool, tMyBool, tInt, tMyInt, tUint64, tJ, tI, tEmpty, tChanInt, tMyChan,
   tRecvChan, Pointer(tC)}

\* v can be converted to type T: it is assignable, or both are integers
Convertible(v, T) ==
  \/ Assignable(v, T)
  \/ Underlying(v.t) = Underlying(T)
  \/ Underlying(v.t) \in {tInt, tUint64, tUntypedInt} /\ Underlying(T) \in {tInt, tUint64}

InitConv ==
  /\ InitProg /\ InitCallers({}, {}, 0)
  /\ fn \in {EmitFunction(nr) : nr \in 0..1}
  /\ emitted = NoEmit
  /\ input \in {a \in [val : EmitValues, typ : ConvTypes] : Convertible(a.val, a.typ)}

\* the operand of the next emitConv: the input value, then the last result
ConvOperand == IF emitted.n = 0 THEN input.val ELSE emitted.v

\* emitConv(f, val, typ)
EmitConv ==
  /\ CanEmit
  /\ \E r \in {emitConv(fn, ConvOperand, input.typ)} :
       /\ fn' = r.f
       /\ emitted' = [op |-> "emitConv", val |-> ConvOperand, v |-> r.v,
                      before |-> fn, n |-> emitted.n + 1]
  /\ UNCHANGED <<regVars, input>>

NextConv == EmitConv

SpecConv == InitConv /\ [][NextConv]_vars

----------------------------------------------------------------------------
(* The control-flow graph of one Function: the builder makes its blocks    *)
(* current one after the other, emits into the current block and ends it   *)
(* with emitJump or emitIf; createRecoverBlock is called at any time.      *)

\* the result types of the Functions built
BlockResults == {<<>>, <<tInt, tC>>}

\* the builder's named results: one local per result in the entry block
RECURSIVE AddNamedResults(_, _)
NamedResult(r, i) == AddNamedResults([r.f EXCEPT !.namedResults = Append(@, r.v)], i + 1)

AddNamedResults(f, i) ==
  IF i > Len(f.Signature.results) THEN f
  ELSE NamedResult(addLocal(f, f.Signature.results[i]), i)

\* the blocks the builder creates for the statements of the body
RECURSIVE AddBlocks(_, _)
AddBlocks(f, nb) ==
  IF Len(f.Blocks) >= nb THEN f ELSE AddBlocks(newBasicBlock(f, "body"), nb)

\* a Function whose body the builder has started
BlockFunction(results, named, nb) ==
  AddBlocks(IF named THEN AddNamedResults(EmitFunctionOf(results), 1)
            ELSE EmitFunctionOf(results), nb)

InitBlocks ==
  /\ InitProg /\ InitCallers({}, {}, 0)
  /\ fn \in {BlockFunction(rs, named, nb) :
               rs \in BlockResults, named \in BOOLEAN, nb \in 1..MaxBlocks}
  /\ emitted = NoEmit
  /\ input = Nil

\* the blocks of the body: every block but the recover block
BodyBlocks == (1..Len(fn.Blocks)) \ {fn.Recover}

\* the condition of a branch
cond == Param("b", tBool, 1)

\* the builder continues in a block it has not emitted to
StartBlock ==
  /\ fn.currentBlock = 0
  /\ \E b \in BodyBlocks :
       /\ fn.Blocks[b].Instrs = <<>>
       /\ fn' = [fn EXCEPT !.currentBlock = b]
  /\ emitted' = [op |-> "startBlock", before |-> fn]
  /\ UNCHANGED <<regVars, input>>

\* an instruction that is no terminator: the comparison i == 1
EmitValue ==
  /\ fn.currentBlock # 0
  /\ Len(fn.Blocks[fn.currentBlock].Instrs) < MaxOps
  /\ fn' = emitCompare(fn, "EQL", Param("i", tInt, 3), cOne).f
  /\ emitted' = [op |-> "emitCompare", before |-> fn]
  /\ UNCHANGED <<regVars, input>>

\* emitJump(f, target)
EmitJump ==
  /\ fn.currentBlock # 0
  /\ \E target \in BodyBlocks :
       /\ fn' = emitJump(fn, target)
       /\ emitted' = [op |-> "emitJump", before |-> fn, args |-> <<target>>]
  /\ UNCHANGED <<regVars, input>>

\* emitIf(f, cond, tblock, fblock), for two different blocks
EmitIf ==
  /\ fn.currentBlock # 0
  /\ \E tblock \in BodyBlocks, fblock \in BodyBlocks :
       /\ tblock # fblock
       /\ fn' = emitIf(fn, cond, tblock, fblock)
       /\ emitted' = [op |-> "emitIf", before |-> fn, args |-> <<tblock, fblock>>]
  /\ UNCHANGED <<regVars, input>>

\* createRecoverBlock(f)
CreateRecoverBlock ==
  /\ fn' = createRecoverBlock(fn)
  /\ emitted' = [op |-> "createRecoverBlock", before |-> fn]
  /\ UNCHANGED <<regVars, input>>

NextBlocks == StartBlock \/ EmitValue \/ EmitJump \/ EmitIf \/ CreateRecoverBlock

SpecBlocks == InitBlocks /\ [][NextBlocks]_vars

----------------------------------------------------------------------------
(* Properties of the registry.                                             *)

\* v is a Function whose body is complete
IsFunction(v) == v \notin {Nil, Panicked, Crashed} /\ v.built

\* the request of log entry e asks for method id of type typ
Asks(e, typ, id) ==
  \/ e.req.kind = "LookupMethod" /\ e.req.meth.recv = typ /\ e.req.meth.obj = id
  \/ e.req.kind = "MethodSet" /\ e.req.typ = typ /\ id \in methodSet(typ)

\* what the request of log entry e got for method id
Got(e, id) == IF e.req.kind = "MethodSet" THEN e.ret[id] ELSE e.ret

\* the pairs (type, method) a request can ask for
Entries == RegTypes \X Methods

\* no Function was synthesized a second time
SynthesizedOnce == \A x \in created : x.serial = 1

\* C1: requests for one (type, method), and requests for the bound wrapper
\* of one method, made by concurrent goroutines: the Function is synthesized
\* once, and each request that does not panic gets that one complete Function
C1_OneSynthesisSameInstance ==
  /\ SynthesizedOnce
  /\ \A i \in DOMAIN log, j \in DOMAIN log : \A x \in Entries :
       Asks(log[i], x[1], x[2]) /\ Asks(log[j], x[1], x[2])
         /\ log[i].ret # Panicked /\ log[j].ret # Panicked
       => IsFunction(Got(log[i], x[2])) /\ Got(log[i], x[2]) = Got(log[j], x[2])
  /\ \A i \in DOMAIN log, j \in DOMAIN log :
       log[i].req.kind = "boundMethodWrapper" /\ log[j].req = log[i].req
         /\ log[i].ret # Panicked /\ log[j].ret # Panicked
       => IsFunction(log[i].ret) /\ log[i].ret = log[j].ret

\* an entry of a method set, once written, stays as it is
EntriesStay ==
  \A x \in Entries :
    methodSets[x[1]][x[2]] # Nil => methodSets'[x[1]][x[2]] = methodSets[x[1]][x[2]]

\* a request that got a Function for (type, method): each later one gets it
LaterSame ==
  \A i \in DOMAIN log, j \in DOMAIN log : \A x \in Entries :
    i < j /\ Asks(log[i], x[1], x[2]) /\ Asks(log[j], x[1], x[2])
      /\ log[i].ret # Panicked /\ log[j].ret # Panicked /\ Got(log[i], x[2]) # Nil
    => Got(log[j], x[2]) = Got(log[i], x[2])

\* C2: after any sequence of MethodSet and LookupMethod calls there is one
\* Function per (type, method): none is synthesized twice, an entry once
\* written is never replaced or removed, and a later lookup returns the
\* instance the first one returned
C2_OneFunctionPerEntry == [](SynthesizedOnce /\ LaterSame) /\ [][EntriesStay]_vars

\* two lookups of vm on ptr-to-C returned the same wrapper
C2_Witness ==
  \E i \in DOMAIN log, j \in DOMAIN log :
    /\ i < j /\ log[i].req = LookupMethodReq(Selection(Pointer(tC), "vm"))
    /\ log[j].req = log[i].req
    /\ IsFunction(log[i].ret) /\ log[j].ret = log[i].ret
    /\ log[i].ret.Synthetic.kind = "wrapper"

\* the interface method wrappers synthesized for method id
IfaceWrappersOf(id) ==
  {x \in created : x.key.Synthetic.kind = "interface method wrapper"
                   /\ x.key.Synthetic.obj = id}

\* C6: a method object reached through two interface types, one embedding
\* the other, in either order: both get the same interface method wrapper,
\* which is built once
C6_SharedInterfaceWrapper ==
  /\ \A id \in Methods : Cardinality(IfaceWrappersOf(id)) <= 1
  /\ \A i \in DOMAIN log, j \in DOMAIN log : \A id \in Methods :
       Asks(log[i], tI, id) /\ Asks(log[j], tJ, id)
       => /\ IsFunction(Got(log[i], id))
          /\ Got(log[i], id).Synthetic.kind = "interface method wrapper"
          /\ Got(log[j], id) = Got(log[i], id)

\* im was looked up through J and then through I
C6_Witness ==
  \E i \in DOMAIN log, j \in DOMAIN log :
    /\ i > j /\ Asks(log[i], tI, "im") /\ Asks(log[j], tJ, "im")
    /\ IsFunction(Got(log[i], "im")) /\ Cardinality(IfaceWrappersOf("im")) = 1

\* the instructions of the one block of a wrapper
Body(f) == f.Blocks[1].Instrs

\* the positions of the instructions op in the body of f
At(f, ops) == {i \in DOMAIN Body(f) : Body(f)[i].op \in ops}

\* the types of the declared formals of obj as parameters
FormalTypes(obj) ==
  [i \in DOMAIN SigParams(obj) |->
     IF SigVariadic(obj) /\ i = Len(SigParams(obj)) THEN Slice(SigParams(obj)[i])
     ELSE SigParams(obj)[i]]

\* the bound method wrappers synthesized for obj
BoundWrappersOf(obj) ==
  {x \in created : x.key.Synthetic.kind = "bound method wrapper"
                   /\ x.key.Synthetic.obj = obj}

\* f is a bound method wrapper of obj: one free variable, the formals as
\* parameters, one call with the receiver before the formals
BoundShape(f, obj) ==
  /\ IsFunction(f)
  /\ Len(f.FreeVars) = 1 /\ f.FreeVars[1] = Capture("recv", recvType(obj))
  /\ [i \in DOMAIN f.Params |-> f.Params[i].t] = FormalTypes(obj)
  /\ Len(f.Blocks) = 1 /\ At(f, {"Call"}) = {1}
  /\ At(f, {"Call", "Extract", "Return"}) = DOMAIN Body(f)
  /\ IF IsInterface(recvType(obj))
     THEN /\ Body(f)[1].Method = obj /\ Body(f)[1].Value = f.FreeVars[1]
          /\ Body(f)[1].Args = f.Params
     ELSE /\ Body(f)[1].Method = NoMethod /\ Body(f)[1].Value = ConcreteFunction(obj)
          /\ Body(f)[1].Args = <<f.FreeVars[1]>> \o f.Params

\* C7: every request for the bound method wrapper of a method object gets
\* the same instance, built once: one free variable (the receiver), the
\* declared formals as parameters, and a body of one call, direct for a
\* concrete method and abstract for an interface method, with the receiver
\* first and the formals after it in order
C7_BoundWrapper ==
  /\ \A obj \in Methods : Cardinality(BoundWrappersOf(obj)) <= 1
  /\ \A i \in DOMAIN log :
       log[i].req.kind = "boundMethodWrapper" /\ log[i].ret # Panicked
       => /\ BoundShape(log[i].ret, log[i].req.obj)
          /\ \A j \in DOMAIN log :
               log[j].req = log[i].req /\ log[j].ret # Panicked
               => log[j].ret = log[i].ret

\* the bound wrapper of pm was requested twice, that of im once
C7_Witness ==
  \E i \in DOMAIN log, j \in DOMAIN log, k \in DOMAIN log :
    /\ i < j /\ log[i].req = BoundReq("pm") /\ log[j].req = BoundReq("pm")
    /\ IsFunction(log[i].ret) /\ log[j].ret = log[i].ret
    /\ log[k].req = BoundReq("im") /\ IsFunction(log[k].ret)

\* a step of a LookupMethod request leaves every entry but the requested
\* one as it is, and synthesizes no Function of another method
LookupFrame ==
  \A p \in callers :
    pc[p] # "idle" /\ req[p].kind = "LookupMethod"
    => /\ \A x \in Entries :
            x # <<req[p].meth.recv, req[p].meth.obj>>
            => methodSets'[x[1]][x[2]] = methodSets[x[1]][x[2]]
       /\ \A x \in created' \ created : x.key.Synthetic.obj = req[p].meth.obj

\* a MethodSet after a LookupMethod of the same type has the Function the
\* lookup returned
GetAfterLookup ==
  \A i \in DOMAIN log, j \in DOMAIN log :
    /\ i < j /\ log[i].req.kind = "LookupMethod" /\ IsFunction(log[i].ret)
    /\ log[j].req = MethodSetReq(log[i].req.meth.recv) /\ log[j].ret # Panicked
    => log[j].ret[log[i].req.meth.obj] = log[i].ret

\* C10: LookupMethod resolves at most the requested entry and leaves the
\* other entries of the method set as they are; a later MethodSet of the type
\* returns a set with that very Function, which is not resolved again
C10_LookupFrame == [](GetAfterLookup /\ SynthesizedOnce) /\ [][LookupFrame]_vars

\* vm of ptr-to-C was looked up, then the whole method set was requested
C10_Witness ==
  \E i \in DOMAIN log, j \in DOMAIN log :
    /\ i < j /\ log[i].req = LookupMethodReq(Selection(Pointer(tC), "vm"))
    /\ IsFunction(log[i].ret)
    /\ log[j].req = MethodSetReq(Pointer(tC))
    /\ log[j].ret # Panicked /\ log[j].ret["vm"] = log[i].ret /\ log[j].ret["pm"] # Nil

----------------------------------------------------------------------------
(* Properties of the resolver.                                             *)

\* findMethod returned a Function for the selection input.meth
Resolved == emitted.op = "findMethod" /\ ~emitted.panic

IsWrapper(f) == f.Synthetic.kind = "wrapper"

\* the result of findMethod is what its three rules give, where promoted
\* tells when the selection needs a promotion wrapper
ResolvedBy(promoted) ==
  IF promoted
  THEN IsFunction(fn) /\ IsWrapper(fn) /\ fn.Signature.recv = input.meth.recv
  ELSE IF IsInterface(input.meth.recv)
  THEN IsFunction(fn) /\ fn.Synthetic.kind = "interface method wrapper"
  ELSE fn = ConcreteFunction(input.meth.obj)

RecvOperand(c) == IF c.Method = NoMethod THEN c.Args[1] ELSE c.Value

\* v is the value of a Load instruction of the body of f
IsLoaded(f, v) ==
  v.k = "Instr" /\ Body(f)[v.i].op = "UnOp" /\ Body(f)[v.i].Op = "MUL"

\* the wrapper f loads the receiver to a plain value and calls with it
CallsLoadedValue(f) ==
  \A i \in At(f, {"Call"}) :
    /\ IsLoaded(f, RecvOperand(Body(f)[i]))
    /\ RecvOperand(Body(f)[i]).i < i
    /\ ~isPointer(RecvOperand(Body(f)[i]).t)

\* the wrapper f uses the address of the spilled receiver and never loads it
UsesSpillAddress(f) ==
  /\ \A i \in At(f, {"UnOp"}) : Body(f)[i].X # f.Locals[1]
  /\ \E i \in At(f, {"FieldAddr"}) : Body(f)[i].X = f.Locals[1]

ValueViaPointer ==
  ~isPointer(recvType(input.meth.obj)) /\ isPointer(input.meth.recv)

PointerViaValue ==
  isPointer(recvType(input.meth.obj)) /\ ~isPointer(input.meth.recv)

RECURSIVE PathFields(_, _)
PathFields(t, indices) ==
  IF indices = <<>> THEN <<>>
  ELSE <<StructField(t, Head(indices))>>
         \o PathFields(deref(StructField(t, Head(indices))), Tail(indices))

\* the field-selection instructions of the body of f, and the j-th of them
Steps(f) == At(f, {"FieldAddr", "Field"})

StepPos(f, j) == CHOOSE s \in Steps(f) : Cardinality({u \in Steps(f) : u < s}) = j - 1

\* the value instruction i of the body of f defines
ValueAt(f, i) == [k |-> "Instr", b |-> 1, i |-> i, t |-> Body(f)[i].t]

\* instruction i of f is a Load of v
IsLoadOf(f, i, v) ==
  i \in DOMAIN Body(f) /\ Body(f)[i].op = "UnOp" /\ Body(f)[i].Op = "MUL" /\ Body(f)[i].X = v

\* the Loads that follow instruction s of f, each of the value before it
LoadsAfter(f, s) ==
  IF ~IsLoadOf(f, s + 1, ValueAt(f, s)) THEN 0
  ELSE IF ~IsLoadOf(f, s + 2, ValueAt(f, s + 1)) THEN 1 ELSE 2

\* the wrapper f of a selection with path index walks the k-1 embedded
\* fields in path order, each by a FieldAddr on a pointer, then calls once
WalksPath(f, index) ==
  /\ Cardinality(Steps(f)) = Len(index) - 1
  /\ At(f, {"Field"}) = {}
  /\ \A j \in 1..(Len(index) - 1) :
       /\ Body(f)[StepPos(f, j)].Field = index[j]
       /\ isPointer(Body(f)[StepPos(f, j)].X.t)
       /\ j > 1 => Body(f)[StepPos(f, j)].X
                     = ValueAt(f, StepPos(f, j - 1) + LoadsAfter(f, StepPos(f, j - 1)))
  /\ Cardinality(At(f, {"Call"})) = 1
  /\ \A s \in Steps(f), c \in At(f, {"Call"}) : s < c

\* the promoted method takes its receiver as a value
ByValue(obj) == IsInterface(recvType(obj)) \/ ~isPointer(recvType(obj))

\* C5 as stated: a wrapper for a path of length k has exactly k-1
\* field-selection steps in path order, all address-of-field steps on a
\* pointer, a load right after a step if and only if that step's field is
\* declared with a pointer type, and then exactly one call
C5_LoadIffPointerField ==
  Resolved /\ IsWrapper(fn) =>
    /\ WalksPath(fn, input.meth.index)
    /\ \A j \in 1..(Len(input.meth.index) - 1) :
         LoadsAfter(fn, StepPos(fn, j)) >= 1
           <=> isPointer(PathFields(deref(input.meth.recv), input.meth.index)[j])

\* C5: a wrapper for a path of length k has exactly k-1 field-selection
\* steps in path order, all address-of-field steps on a pointer, and then
\* exactly one call; a step is followed by one load when its field is declared
\* with a pointer type, and the last step by one more load when the promoted
\* method takes its receiver as a value
C5_SelectionSteps ==
  Resolved /\ IsWrapper(fn) =>
    /\ WalksPath(fn, input.meth.index)
    /\ \A j \in 1..(Len(input.meth.index) - 1) :
         LoadsAfter(fn, StepPos(fn, j))
           = (IF isPointer(PathFields(deref(input.meth.recv), input.meth.index)[j])
              THEN 1 ELSE 0)
             + (IF j = Len(input.meth.index) - 1 /\ ByValue(input.meth.obj)
                THEN 1 ELSE 0)

\* pm, declared on ptr-to-C, promoted through A embedding B embedding ptr-to-C
C5_Witness ==
  /\ Resolved /\ input.meth = Selection(Pointer(<<"S", "v", "p", "C">>), "pm")
  /\ IsWrapper(fn) /\ Cardinality(Steps(fn)) = 2
  /\ LoadsAfter(fn, StepPos(fn, 1)) = 0 /\ LoadsAfter(fn, StepPos(fn, 2)) = 1

----------------------------------------------------------------------------
(* Properties of the emitters.                                             *)

\* the instructions of the open (or just closed) entry block, before and
\* after the last emitter operation
Before == emitted.before.Blocks[1].Instrs
After == fn.Blocks[1].Instrs

\* t is boolean-typed
Boolean(t) == TypeClass(Underlying(t)) = "Basic" /\ IsBoolean(Underlying(t))

\* the last operation returned operand v and emitted nothing
ReturnedOperand(v) == emitted.v = v /\ fn = emitted.before

\* the last operation appended a BinOp op and returned its value
ReturnedBinOp(op) ==
  /\ Len(After) > Len(Before) /\ SubSeq(After, 1, Len(Before)) = Before
  /\ After[Len(After)].op = "BinOp" /\ After[Len(After)].Op = op
  /\ emitted.v = [k |-> "Instr", b |-> 1, i |-> Len(After), t |-> tBool]

\* C8 as stated: an equality comparison of the shared constant true with a
\* boolean-typed operand returns that operand and appends no instruction,
\* whichever side the constant is on
C8_TrueOnEitherSide ==
  emitted.op = "emitCompare" /\ input.Op = "EQL" =>
    /\ input.X = vTrue /\ Boolean(input.Y.t) => ReturnedOperand(input.Y)
    /\ input.Y = vTrue /\ Boolean(input.X.t) /\ input.X # vTrue => ReturnedOperand(input.X)

\* C8: an equality comparison whose left operand is the shared constant true
\* and whose right operand is boolean-typed returns the right operand and
\* appends no instruction; every other comparison, the one with the constant
\* on the right included, appends a BinOp and returns its value
C8_TrueOnLeft ==
  emitted.op = "emitCompare" =>
    IF input.Op = "EQL" /\ input.X = vTrue /\ Boolean(input.Y.t)
    THEN ReturnedOperand(input.Y)
    ELSE ReturnedBinOp(input.Op)

\* the tag true of a tagless switch was compared with a case of type MyBool
C8_Witness ==
  /\ emitted.op = "emitCompare" /\ input.Op = "EQL" /\ input.X = vTrue
  /\ input.Y = Param("mb", tMyBool, 2) /\ ReturnedOperand(input.Y)

\* the instruction at position i after the last operation is an Extract of
\* component index of the call's value
IsExtract(i, index) ==
  /\ After[i].op = "Extract" /\ After[i].Index = index
  /\ After[i].Tuple.k = "Instr" /\ After[i].Tuple.i = Len(Before) + 1

\* C9: emitTailCall appends the call, then for a signature without results
\* a Return without operands, for one result a Return of the call's value
\* and no Extract, for n > 1 results n Extracts of components 0..n-1 in
\* ascending order and a Return of their values in that order; the Return is
\* the last instruction and no block stays open
C9_TailCallArity ==
  emitted.op = "emitTailCall" =>
    LET nr == Len(fn.Signature.results)
        c == Len(Before) + 1
    IN /\ SubSeq(After, 1, Len(Before)) = Before
       /\ After[c].op = "Call" /\ After[c].Value = input.call.Value
       /\ After[c].Method = input.call.Method /\ After[c].Args = input.call.Args
       /\ Len(After) = IF nr > 1 THEN c + nr + 1 ELSE c + 1
       /\ After[Len(After)].op = "Return"
       /\ nr = 0 => After[Len(After)].Results = <<>>
       /\ nr = 1 => /\ Len(After[Len(After)].Results) = 1
                    /\ After[Len(After)].Results[1].k = "Instr"
                    /\ After[Len(After)].Results[1].i = c
       /\ nr > 1 => /\ \A i \in 1..nr : IsExtract(c + i, i - 1)
                    /\ Len(After[Len(After)].Results) = nr
                    /\ \A i \in 1..nr :
                         /\ After[Len(After)].Results[i].k = "Instr"
                         /\ After[Len(After)].Results[i].i = c + i
       /\ fn.currentBlock = 0

\* a tail call in a Function with MaxResults results, after a comparison
C9_Witness ==
  /\ emitted.op = "emitTailCall" /\ Len(fn.Signature.results) = MaxResults
  /\ Len(Before) > 0
  /\ Len(After) = Len(Before) + MaxResults + 2 /\ fn.currentBlock = 0

----------------------------------------------------------------------------
(* Further properties of the registry.                                     *)

\* C11: after any sequence of LookupMethod and MethodSet calls, the map a
\* MethodSet call returns has a Function for every method of the type's
\* method set, and is nil when that set is empty (as for a pointer to an
\* interface)
C11_GetFullMethodSet ==
  \A i \in DOMAIN log :
    log[i].req.kind = "MethodSet" /\ log[i].ret # Panicked
    => /\ \A id \in methodSet(log[i].req.typ) : IsFunction(log[i].ret[id])
       /\ methodSet(log[i].req.typ) = {} => log[i].ret = NilMap

\* the concrete methods that are not registered
Missing == {obj \in Methods : ~IsInterface(recvType(obj)) /\ obj \notin concreteMethods}

\* no Function is memoized for a method whose concrete Function is missing
NothingMemoized ==
  \A obj \in Missing :
    /\ \A typ \in RegTypes : methodSets[typ][obj] = Nil
    /\ boundMethodWrappers[obj] = Nil

\* C12: a request that needs the concrete Function of a method that has
\* none fails with a panic and returns nothing; no entry for the method is
\* written to the method sets or the wrapper caches, the lock is released,
\* and a later request for the same method fails the same way
C12_MissingConcreteFatal ==
  /\ NothingMemoized
  /\ (\A p \in callers : pc[p] = "idle") => methodsMu = NoProc
  /\ \A i \in DOMAIN log, j \in DOMAIN log :
       i < j /\ log[i].ret = Panicked /\ log[j].req = log[i].req
       => log[j].ret = Panicked

\* C17: a goroutine never indexes the method-set map of a type while
\* another goroutine is writing an entry of the same map: the read and the
\* write are ordered by methodsMu
C17_ReadsOrderedByLock ==
  \A p \in callers :
    pc[p] = "index" => ~Writing(p, req[p].meth.recv)

\* C18: under a fair scheduler every request that is under way eventually
\* returns or panics, or the program ends with the runtime's fatal error: no
\* goroutine waits forever for methodsMu
C18_EveryRequestEnds ==
  \A p \in Procs : (pc[p] # "idle") ~> (pc[p] = "idle" \/ ~Running)

\* a request panicked for want of a concrete method, and the request that
\* waited for the lock ended after it
C18_Witness ==
  /\ Len(log) = NProcs /\ log[1].ret = Panicked
  /\ \A p \in callers : pc[p] = "idle"
  /\ methodsMu = NoProc

\* the comparison the last emitCompare appended, and its operands
CmpInstr == After[Len(After)]

\* the last emitCompare was outside the special case of the tagless switch
Compared ==
  /\ emitted.op = "emitCompare"
  /\ ~(input.Op = "EQL" /\ input.X = vTrue /\ Boolean(input.Y.t))

\* operand w of the comparison is v itself
Unconverted(w, v) == w = v

\* operand w of the comparison is v converted to type T: a constant of the
\* same value, or the value of a conversion appended before the comparison
ConvertedTo(w, v, T) ==
  /\ v.t # T /\ w.t = T
  /\ w.k = "Const" => v.k = "Const" /\ w.Value = v.Value
  /\ w.k # "Const" =>
       /\ w.k = "Instr" /\ w.i \in (Len(Before) + 1)..(Len(After) - 1)
       /\ After[w.i].op \in {"ChangeType", "ChangeInterface", "MakeInterface", "Convert"}

\* exactly one BinOp was appended, it is the last instruction and of type bool
OneBoolBinOp ==
  /\ ReturnedBinOp(input.Op) /\ CmpInstr.t = tBool
  /\ \A i \in (Len(Before) + 1)..(Len(After) - 1) : After[i].op # "BinOp"

SameUnderlying == IsIdentical(Underlying(input.X.t), Underlying(input.Y.t))

\* C13 as stated: the operand that is not an interface is converted when
\* exactly one is an interface, the constant when exactly one is a constant,
\* and in every other case, two interfaces of different types and two
\* constants included, both operands are left unconverted
C13_ExactlyOneRule ==
  Compared =>
    /\ OneBoolBinOp
    /\ CASE SameUnderlying ->
              Unconverted(CmpInstr.X, input.X) /\ Unconverted(CmpInstr.Y, input.Y)
         [] ~SameUnderlying /\ IsInterface(input.X.t) /\ ~IsInterface(input.Y.t) ->
              Unconverted(CmpInstr.X, input.X) /\ ConvertedTo(CmpInstr.Y, input.Y, input.X.t)
         [] ~SameUnderlying /\ ~IsInterface(input.X.t) /\ IsInterface(input.Y.t) ->
              ConvertedTo(CmpInstr.X, input.X, input.Y.t) /\ Unconverted(CmpInstr.Y, input.Y)
         [] ~SameUnderlying /\ ~IsInterface(input.X.t) /\ ~IsInterface(input.Y.t)
            /\ input.X.k = "Const" /\ input.Y.k # "Const" ->
              ConvertedTo(CmpInstr.X, input.X, input.Y.t) /\ Unconverted(CmpInstr.Y, input.Y)
         [] ~SameUnderlying /\ ~IsInterface(input.X.t) /\ ~IsInterface(input.Y.t)
            /\ input.X.k # "Const" /\ input.Y.k = "Const" ->
              Unconverted(CmpInstr.X, input.X) /\ ConvertedTo(CmpInstr.Y, input.Y, input.X.t)
         [] OTHER ->
              Unconverted(CmpInstr.X, input.X) /\ Unconverted(CmpInstr.Y, input.Y)

\* C13: outside the special case the first of these rules that applies
\* decides: operands of identical underlying types are left as they are; if
\* the left operand is an interface the right one is converted to its type;
\* else if the right one is an interface the left one is converted to its
\* type; else if the left one is a constant it is converted to the right
\* one's type; else if the right one is a constant it is converted to the
\* left one's type; else both are left as they are.  Exactly one BinOp of
\* type bool is appended, after the conversions
C13_FirstRule ==
  Compared =>
    /\ OneBoolBinOp
    /\ CASE SameUnderlying ->
              Unconverted(CmpInstr.X, input.X) /\ Unconverted(CmpInstr.Y, input.Y)
         [] ~SameUnderlying /\ IsInterface(input.X.t) ->
              Unconverted(CmpInstr.X, input.X) /\ ConvertedTo(CmpInstr.Y, input.Y, input.X.t)
         [] ~SameUnderlying /\ ~IsInterface(input.X.t) /\ IsInterface(input.Y.t) ->
              ConvertedTo(CmpInstr.X, input.X, input.Y.t) /\ Unconverted(CmpInstr.Y, input.Y)
         [] ~SameUnderlying /\ ~IsInterface(input.X.t) /\ ~IsInterface(input.Y.t)
            /\ input.X.k = "Const" ->
              ConvertedTo(CmpInstr.X, input.X, input.Y.t) /\ Unconverted(CmpInstr.Y, input.Y)
         [] ~SameUnderlying /\ ~IsInterface(input.X.t) /\ ~IsInterface(input.Y.t)
            /\ input.X.k # "Const" /\ input.Y.k = "Const" ->
              Unconverted(CmpInstr.X, input.X) /\ ConvertedTo(CmpInstr.Y, input.Y, input.X.t)
         [] OTHER ->
              Unconverted(CmpInstr.X, input.X) /\ Unconverted(CmpInstr.Y, input.Y)

\* an interface of type J was compared with one of the empty interface type:
\* the right operand was converted by a ChangeInterface
C13_Witness ==
  /\ Compared /\ input.X = Param("j", tJ, 4) /\ input.Y = Param("e", tEmpty, 5)
  /\ CmpInstr.op = "BinOp" /\ CmpInstr.Y.k = "Instr"
  /\ After[CmpInstr.Y.i].op = "ChangeInterface" /\ CmpInstr.Y.t = tJ

\* the instructions the last operation appended
Appended == SubSeq(After, Len(Before) + 1, Len(After))

\* the last operation appended nothing and returned v
Returned(v) == emitted.v = v /\ After = Before

\* the last operation appended the one conversion op of x to the target type
\* and returned its value
OneConversion(op, x) ==
  /\ Appended = <<[op |-> op, X |-> x, t |-> input.typ]>>
  /\ emitted.v = [k |-> "Instr", b |-> 1, i |-> Len(After), t |-> input.typ]

\* the class of the underlying type of t
ClassOf(t) == TypeClass(Underlying(t))

\* a conversion from type s to type t preserves the representation
Preserving(s, t) ==
  \/ Underlying(s) = Underlying(t)
  \/ ClassOf(s) = ClassOf(t) /\ ClassOf(t) \in {"Chan", "Pointer", "Signature"}

\* an untyped literal other than nil
UntypedLiteral(v) == ClassOf(v.t) = "Basic" /\ IsUntyped(Underlying(v.t))

\* w is the constant v with its default type
Defaulted(w, v) ==
  w.k = "Const" /\ v.k = "Const" /\ w.Value = v.Value /\ w.t = DefaultType(Underlying(v.t))

\* C14: emitConv returns a value of exactly the target type, by the first
\* rule that applies: identical types, the value itself and no instruction;
\* representation-preserving, one ChangeType; target an interface, one
\* ChangeInterface of an interface, the nil constant of the target type and
\* no instruction for untyped nil, else one MakeInterface of the value, an
\* untyped literal with its default type; a constant to a non-interface
\* type, a new constant of the same value and no instruction; otherwise one
\* Convert.  Converting the result to the same type again returns it and
\* appends nothing
C14_ConvRules ==
  emitted.op = "emitConv" =>
    /\ emitted.v.t = input.typ
    /\ CASE emitted.val.t = input.typ -> Returned(emitted.val)
         [] emitted.val.t # input.typ /\ Preserving(emitted.val.t, input.typ) ->
              OneConversion("ChangeType", emitted.val)
         [] emitted.val.t # input.typ /\ ~Preserving(emitted.val.t, input.typ)
            /\ ClassOf(input.typ) = "Interface" ->
              CASE ClassOf(emitted.val.t) = "Interface" ->
                     OneConversion("ChangeInterface", emitted.val)
                [] emitted.val.t = tUntypedNil ->
                     /\ Returned(emitted.v) /\ emitted.v.k = "Const"
                     /\ emitted.v.Value = "nil"
                [] OTHER ->
                     /\ Len(Appended) = 1 /\ Appended[1].op = "MakeInterface"
                     /\ Appended[1].t = input.typ
                     /\ emitted.v = [k |-> "Instr", b |-> 1, i |-> Len(After),
                                     t |-> input.typ]
                     /\ IF UntypedLiteral(emitted.val)
                        THEN Defaulted(Appended[1].X, emitted.val)
                        ELSE Appended[1].X = emitted.val
         [] emitted.val.t # input.typ /\ ~Preserving(emitted.val.t, input.typ)
            /\ ClassOf(input.typ) # "Interface" /\ emitted.val.k = "Const" ->
              /\ Returned(emitted.v) /\ emitted.v.k = "Const"
              /\ emitted.v.Value = emitted.val.Value
         [] OTHER -> OneConversion("Convert", emitted.val)
    /\ emitted.n > 1 => Returned(emitted.val)

\* the untyped constant 1 was converted to the empty interface type by a
\* MakeInterface of the constant 1 of type int, and the result converted again
C14_Witness ==
  /\ emitted.op = "emitConv" /\ emitted.n = 2
  /\ input.val = cOne /\ input.typ = tEmpty
  /\ emitted.val.k = "Instr" /\ After[emitted.val.i].op = "MakeInterface"
  /\ After[emitted.val.i].X.t = tInt /\ Returned(emitted.val)

----------------------------------------------------------------------------
(* Properties of the control-flow graph.                                   *)

\* instr ends a block
IsTerminator(instr) == instr.op \in {"Jump", "If", "Return"}

\* block b of Function f holds a terminator
Terminated(f, b) ==
  \E i \in 1..Len(f.Blocks[b].Instrs) : IsTerminator(f.Blocks[b].Instrs[i])

\* the block that was current before the last operation
Cur == emitted.before.currentBlock

\* the last operation appended exactly instr to the block that was current
\* and nothing to any other block
AppendedOne(instr) ==
  /\ Len(fn.Blocks) = Len(emitted.before.Blocks)
  /\ fn.Blocks[Cur].Instrs = Append(emitted.before.Blocks[Cur].Instrs, instr)
  /\ \A b \in 1..Len(fn.Blocks) :
       b # Cur => fn.Blocks[b].Instrs = emitted.before.Blocks[b].Instrs

\* the number of times b occurs in the sequence bs
Occurs(bs, b) == Cardinality({i \in 1..Len(bs) : bs[i] = b})

\* the last operation registered edges from the block that was current to
\* exactly the blocks targets, in this order
Edges(targets) ==
  /\ fn.Blocks[Cur].Succs = emitted.before.Blocks[Cur].Succs \o targets
  /\ \A b \in 1..Len(fn.Blocks) :
       /\ b # Cur => fn.Blocks[b].Succs = emitted.before.Blocks[b].Succs
       /\ Len(fn.Blocks[b].Preds)
            = Len(emitted.before.Blocks[b].Preds) + Occurs(targets, b)
       /\ Occurs(fn.Blocks[b].Preds, Cur)
            = Occurs(emitted.before.Blocks[b].Preds, Cur) + Occurs(targets, b)

\* C15: emitJump and emitIf each append exactly one terminator to the
\* current block, register the edges from it (one for a Jump; two for an If,
\* to the true target and then to the false target) and leave no block
\* current; in every state a terminator is the last instruction of its
\* block, the current block holds none, and no operation appends to a block
\* that holds one
C15_Terminators ==
  /\ emitted.op = "emitJump" =>
       AppendedOne([op |-> "Jump"]) /\ Edges(emitted.args) /\ fn.currentBlock = 0
  /\ emitted.op = "emitIf" =>
       /\ AppendedOne([op |-> "If", Cond |-> cond])
       /\ Edges(emitted.args) /\ fn.currentBlock = 0
  /\ \A b \in 1..Len(fn.Blocks) :
       \A i \in 1..Len(fn.Blocks[b].Instrs) :
         IsTerminator(fn.Blocks[b].Instrs[i]) => i = Len(fn.Blocks[b].Instrs)
  /\ fn.currentBlock # 0 => ~Terminated(fn, fn.currentBlock)
  /\ emitted.op # "none" =>
       \A b \in 1..Len(emitted.before.Blocks) :
         Terminated(emitted.before, b)
           => fn.Blocks[b].Instrs = emitted.before.Blocks[b].Instrs

\* the entry block was ended by an If whose true target is the second block
\* and whose false target is the entry block itself: a loop
C15_Witness ==
  /\ emitted.op = "emitIf" /\ Cur = 1 /\ emitted.args = <<2, 1>>
  /\ fn.Blocks[1].Succs = <<2, 1>> /\ fn.Blocks[1].Preds = <<1>>
  /\ fn.Blocks[2].Preds = <<1>> /\ fn.currentBlock = 0

\* the blocks of fn created by createRecoverBlock
RecoverBlocks == {b \in 1..Len(fn.Blocks) : fn.Blocks[b].Comment = "recover"}

\* the instructions of the recover block, and its last one
Landing == fn.Blocks[fn.Recover].Instrs
LandingReturn == Landing[Len(Landing)]

\* instruction i of the recover block loads from address addr
LoadsFrom(i, addr) ==
  Landing[i].op = "UnOp" /\ Landing[i].Op = "MUL" /\ Landing[i].X = addr

\* the value of instruction i of the recover block, of type t
LandingValue(i, t) == [k |-> "Instr", b |-> fn.Recover, i |-> i, t |-> t]

\* the recover block reloads the named results in order and returns them
ReturnsReloaded ==
  /\ Len(Landing) = Len(fn.namedResults) + 1
  /\ LandingReturn.op = "Return"
  /\ Len(LandingReturn.Results) = Len(fn.namedResults)
  /\ \A i \in 1..Len(fn.namedResults) :
       /\ LoadsFrom(i, fn.namedResults[i])
       /\ LandingReturn.Results[i] = LandingValue(i, fn.Signature.results[i])

\* v is a zero value of type t: a constant, or for a struct the value loaded
\* from a local that the recover block allocates
IsZero(v, t) ==
  /\ v.t = t
  /\ IF TypeClass(Underlying(t)) = "Struct"
     THEN /\ v.k = "Instr" /\ v.b = fn.Recover /\ v.i \in 2..(Len(Landing) - 1)
          /\ Landing[v.i - 1].op = "Alloc"
          /\ LoadsFrom(v.i, LandingValue(v.i - 1, Pointer(t)))
     ELSE v = zeroConst(t)

\* the recover block returns one zero value per result type
ReturnsZeros ==
  /\ LandingReturn.op = "Return"
  /\ Len(LandingReturn.Results) = Len(fn.Signature.results)
  /\ \A i \in 1..Len(fn.Signature.results) :
       IsZero(LandingReturn.Results[i], fn.Signature.results[i])
  /\ \A i \in 1..(Len(Landing) - 1) : Landing[i].op \in {"Alloc", "UnOp"}

\* C16: createRecoverBlock is idempotent: once it is called there is exactly
\* one recover block, f.Recover, which ends in a Return of the reloaded named
\* results, or of one zero value per result type when the results are
\* unnamed; a call leaves the current block and every block that exists as
\* they were; the first call appends the one block, a later call changes
\* nothing
C16_RecoverOnce ==
  /\ RecoverBlocks = (IF fn.Recover = 0 THEN {} ELSE {fn.Recover})
  /\ fn.Recover # 0 =>
       IF fn.namedResults # <<>> THEN ReturnsReloaded ELSE ReturnsZeros
  /\ emitted.op = "createRecoverBlock" =>
       /\ fn.Recover # 0
       /\ fn.currentBlock = emitted.before.currentBlock
       /\ SubSeq(fn.Blocks, 1, Len(emitted.before.Blocks)) = emitted.before.Blocks
       /\ IF emitted.before.Recover = 0
          THEN fn.Recover = Len(fn.Blocks) /\ Len(fn.Blocks) = Len(emitted.before.Blocks) + 1
          ELSE fn = emitted.before

\* createRecoverBlock was called again on a Function with named results
\* while the builder was emitting to the entry block
C16_Witness ==
  /\ emitted.op = "createRecoverBlock" /\ emitted.before.Recover # 0
  /\ Len(fn.namedResults) = 2 /\ ReturnsReloaded
  /\ fn.currentBlock = 1 /\ fn = emitted.before

\* createRecoverBlock was called on a Function with unnamed results
C16_ZerosReached ==
  /\ emitted.op = "createRecoverBlock" /\ emitted.before.Recover = 0
  /\ fn.namedResults = <<>> /\ Len(fn.Signature.results) = 2 /\ ReturnsZeros

====
